---- MODULE Spec2Model ----
(***************************************************************************)
(* Model of the SWMM report extraction engine, parse_swmm_results          *)
(* (src/swmm_tools.py).  One invocation reads the lines of one report      *)
(* file, one line per step, and returns a dictionary.  Its callers are the *)
(* tool analyze_swmm_report and the agent graph (src/agent_workflow.py)    *)
(* and the chat handler on_message (src/app.py).                           *)
(*                                                                         *)
(* A line is the sequence of its whitespace-separated tokens (the value    *)
(* of line.split()); a blank line is the empty sequence.  A float is a     *)
(* record: a number in thousandths, or NaN.                                *)
(***************************************************************************)
EXTENDS Integers, Sequences, FiniteSets, TLC

VARIABLES
    on_disk,   \* on_disk[c]: the report path of call c exists
    file,      \* file[c]: the lines of the report of call c
    pc,        \* pc[c]: "off", "start", "reading" or "returned"
    handle,    \* handle[c]: "unopened", "open" or "closed"
    pos,       \* pos[c]: number of lines the for loop has consumed
    loc,       \* loc[c]: the local variables of the call
    result,    \* result[c]: the returned dictionary, None before the return
    tool,      \* tool[c]: the call of analyze_swmm_report that makes call c
    session,   \* cl.user_session: the two data frames kept for the reply
    graph,     \* the run of app_graph: its node and the last message
    chat       \* on_message: its position, the messages handled, the reply

\* What lies outside parse_swmm_results: its callers.
outer == <<tool, session, graph, chat>>

vars == <<on_disk, file, pc, handle, pos, loc, result, tool, session, graph, chat>>

\* The invocations of parse_swmm_results the model follows.
Calls == {1, 2}

-----------------------------------------------------------------------------
(* Values *)

None == [none |-> TRUE]

Num(n) == [nan |-> FALSE, v |-> n]

NaN == [nan |-> TRUE, v |-> 0]

\* Python's < on floats: every comparison with NaN is false.
FloatLT(a, b) == ~a.nan /\ ~b.nan /\ a.v < b.v

\* Python's == on floats.
FloatEQ(a, b) == ~a.nan /\ ~b.nan /\ a.v = b.v

\* float(tok) for the tokens of the model, in thousandths; a token outside
\* the table raises ValueError.
FloatTable ==
    ("0" :> Num(0)) @@ ("0.25" :> Num(250)) @@ ("0.250" :> Num(250)) @@
    ("0.800" :> Num(800)) @@ ("1.00" :> Num(1000)) @@ ("2.50" :> Num(2500)) @@
    ("3.20" :> Num(3200)) @@ ("5.00" :> Num(5000)) @@ ("12.5" :> Num(12500)) @@
    ("18.25" :> Num(18250)) @@ ("-0.029" :> Num(-29)) @@ ("0.441" :> Num(441)) @@
    ("2.5" :> Num(2500)) @@ ("nan" :> NaN)

CanFloat(tok) == tok \in DOMAIN FloatTable

Float(tok) == FloatTable[tok]

\* tok.replace('.','',1).isdigit(): digits with at most one dot.
DigitLike ==
    {"0", "0.25", "0.250", "0.800", "1.00", "2.50", "3.20", "5.00", "12.5",
     "18.25", "0.441", "2.5"}

IsDigitLike(tok) == tok \in DigitLike

-----------------------------------------------------------------------------
(* Lines *)

ContinuityLabel == <<"Continuity", "Error", "(%)">>

FloodingMarker == <<"Node", "Flooding", "Summary">>

SurchargeMarker == <<"Conduit", "Surcharge", "Summary">>

\* phrase in line, for a line whose tokens one blank separates: the words of
\* the phrase are consecutive tokens of the line.
Contains(line, phrase) ==
    \E i \in 0..(Len(line) - Len(phrase)) :
        \A j \in 1..Len(phrase) : line[i + j] = phrase[j]

\* not line.strip()
IsBlank(line) == Len(line) = 0

-----------------------------------------------------------------------------
(* The body of the for loop, lines 34-89 *)

\* The locals as lines 18-26 set them.
InitialLocals ==
    [continuity_error_runoff |-> None,
     continuity_error_routing |-> None,
     in_flooding_table |-> FALSE,
     in_surcharge_table |-> FALSE,
     flooded_nodes |-> <<>>,
     surcharged_links |-> <<>>]

\* float(parts[-1]) of line 41 raises ValueError: nothing inside the loop
\* catches it.
ContinuityRaises(line) ==
    Contains(line, ContinuityLabel) /\ ~CanFloat(line[Len(line)])

\* CatchContinuity without the test of line 44: a later occurrence
\* overwrites the routing figure.
CatchContinuityOverwrite(l, line) ==
    IF ~Contains(line, ContinuityLabel) THEN l
    ELSE LET val == Float(line[Len(line)]) IN
         IF l.continuity_error_runoff = None
         THEN [l EXCEPT !.continuity_error_runoff = val]
         ELSE [l EXCEPT !.continuity_error_routing = val]

\* Lines 39-45: the first value goes to the runoff figure, the second to the
\* routing figure, later ones nowhere.
CatchContinuity(l, line) ==
    IF ~Contains(line, ContinuityLabel) THEN l
    ELSE LET val == Float(line[Len(line)]) IN
         IF l.continuity_error_runoff = None
         THEN [l EXCEPT !.continuity_error_runoff = val]
         ELSE IF l.continuity_error_routing = None
         THEN [l EXCEPT !.continuity_error_routing = val]
         ELSE l

\* The condition of line 60 (parts[k] of the code is parts[k + 1] here).
FloodRowMatches(parts) ==
    Len(parts) >= 6 /\ IsDigitLike(parts[2]) /\ parts[1] # "Node"

\* Lines 63-64 raise no ValueError.
FloodRowParses(parts) == CanFloat(parts[3]) /\ CanFloat(parts[6])

\* The dictionary of line 65.
FloodRecord(parts) ==
    [node |-> parts[1],
     MaxFloodingRate |-> Float(parts[3]),
     TotalFloodVol |-> Float(parts[6])]

\* FloodingTable that leaves the table at the first line that is no data row.
FloodingTableEndsAtJunk(l, line) ==
    IF Contains(line, FloodingMarker)
    THEN [stop |-> TRUE, l |-> [l EXCEPT !.in_flooding_table = TRUE]]
    ELSE IF ~l.in_flooding_table
    THEN [stop |-> FALSE, l |-> l]
    ELSE IF IsBlank(line) /\ Len(l.flooded_nodes) > 0
    THEN [stop |-> TRUE, l |-> [l EXCEPT !.in_flooding_table = FALSE]]
    ELSE IF FloodRowMatches(line) /\ FloodRowParses(line)
    THEN [stop |-> FALSE,
          l |-> [l EXCEPT !.flooded_nodes = Append(@, FloodRecord(line))]]
    ELSE [stop |-> FALSE, l |-> [l EXCEPT !.in_flooding_table = FALSE]]

\* FloodingTable whose start marker empties the accumulator.
FloodingTableResets(l, line) ==
    IF Contains(line, FloodingMarker)
    THEN [stop |-> TRUE,
          l |-> [l EXCEPT !.in_flooding_table = TRUE, !.flooded_nodes = <<>>]]
    ELSE IF ~l.in_flooding_table
    THEN [stop |-> FALSE, l |-> l]
    ELSE IF IsBlank(line) /\ Len(l.flooded_nodes) > 0
    THEN [stop |-> TRUE, l |-> [l EXCEPT !.in_flooding_table = FALSE]]
    ELSE IF FloodRowMatches(line) /\ FloodRowParses(line)
    THEN [stop |-> FALSE,
          l |-> [l EXCEPT !.flooded_nodes = Append(@, FloodRecord(line))]]
    ELSE [stop |-> FALSE, l |-> l]

\* Lines 48-67.  stop: the iteration ended with a continue.
FloodingTable(l, line) ==
    IF Contains(line, FloodingMarker)
    THEN [stop |-> TRUE, l |-> [l EXCEPT !.in_flooding_table = TRUE]]
    ELSE IF ~l.in_flooding_table
    THEN [stop |-> FALSE, l |-> l]
    ELSE IF IsBlank(line) /\ Len(l.flooded_nodes) > 0
    THEN [stop |-> TRUE, l |-> [l EXCEPT !.in_flooding_table = FALSE]]
    ELSE IF FloodRowMatches(line) /\ FloodRowParses(line)
    THEN [stop |-> FALSE,
          l |-> [l EXCEPT !.flooded_nodes = Append(@, FloodRecord(line))]]
    ELSE [stop |-> FALSE, l |-> l]

\* The condition of line 82.
SurchargeRowMatches(parts) ==
    Len(parts) >= 5 /\ IsDigitLike(parts[2]) /\ parts[1] # "Conduit"

\* Lines 85-86 raise no ValueError.
SurchargeRowParses(parts) == CanFloat(parts[2]) /\ CanFloat(parts[4])

\* The dictionary of line 87.
SurchargeRecord(parts) ==
    [link |-> parts[1],
     HoursSurcharged |-> Float(parts[2]),
     HoursAboveFullNormal |-> Float(parts[4])]

\* Lines 70-89.
SurchargeTable(l, line) ==
    IF Contains(line, SurchargeMarker)
    THEN [l EXCEPT !.in_surcharge_table = TRUE, !.in_flooding_table = FALSE]
    ELSE IF ~l.in_surcharge_table
    THEN l
    ELSE IF IsBlank(line) /\ Len(l.surcharged_links) > 0
    THEN [l EXCEPT !.in_surcharge_table = FALSE]
    ELSE IF SurchargeRowMatches(line) /\ SurchargeRowParses(line)
    THEN [l EXCEPT !.surcharged_links = Append(@, SurchargeRecord(line))]
    ELSE l

\* One iteration of the loop that raises nothing.
StepLine(l, line) ==
    LET a == CatchContinuity(l, line)
        b == FloodingTable(a, line)
    IN  IF b.stop THEN b.l ELSE SurchargeTable(b.l, line)

-----------------------------------------------------------------------------
(* list.sort(key=..., reverse=True), lines 94 and 101, as CPython 3.11 runs *)
(* it on a list of fewer than 64 items: the list is reversed, its leading   *)
(* run is found, the rest is inserted by binary insertion, and the list is  *)
(* reversed back.  The only comparison is < on the keys.                    *)

Reverse(s) == [i \in 1..Len(s) |-> s[Len(s) + 1 - i]]

\* count_run: the length of the run that starts the list, the items from i
\* on still to be looked at.
RECURSIVE RunEnd(_, _, _, _)
RunEnd(a, key, i, descending) ==
    IF i > Len(a) THEN Len(a)
    ELSE IF FloatLT(a[i][key], a[i - 1][key]) = descending
         THEN RunEnd(a, key, i + 1, descending)
         ELSE i - 1

\* The binary search of binarysort: where the pivot goes among a[l..r-1].
RECURSIVE InsertionPoint(_, _, _, _, _)
InsertionPoint(a, key, pivot, l, r) ==
    IF l >= r THEN l
    ELSE LET p == l + ((r - l) \div 2) IN
         IF FloatLT(pivot[key], a[p][key])
         THEN InsertionPoint(a, key, pivot, l, p)
         ELSE InsertionPoint(a, key, pivot, p + 1, r)

\* binarysort: a[1..start-1] is the run, the items from start on are inserted.
RECURSIVE BinarySort(_, _, _)
BinarySort(a, key, start) ==
    IF start > Len(a) THEN a
    ELSE LET l == InsertionPoint(a, key, a[start], 1, start)
             moved == SubSeq(a, 1, l - 1) \o <<a[start]>> \o
                      SubSeq(a, l, start - 1) \o SubSeq(a, start + 1, Len(a))
         IN  BinarySort(moved, key, start + 1)

ListSort(a, key) ==
    IF Len(a) < 2 THEN a
    ELSE LET r == Reverse(a)
             descending == FloatLT(r[2][key], r[1][key])
             n == RunEnd(r, key, 3, descending)
             run == IF descending
                    THEN Reverse(SubSeq(r, 1, n)) \o SubSeq(r, n + 1, Len(r))
                    ELSE r
         IN  Reverse(BinarySort(run, key, n + 1))

-----------------------------------------------------------------------------
(* Post-processing and the returned dictionaries, lines 16 and 91-117 *)

\* The number of rows kept, lines 95, 102, 112 and 113.
TopN == 5

\* s[:n]
Take(s, n) == SubSeq(s, 1, IF Len(s) < n THEN Len(s) ELSE n)

\* Lines 94 and 101: the lists are sorted in place, an empty one is left alone.
SortLists(l) ==
    [l EXCEPT !.flooded_nodes =
                  IF Len(@) > 0 THEN ListSort(@, "TotalFloodVol") ELSE @,
              !.surcharged_links =
                  IF Len(@) > 0 THEN ListSort(@, "HoursSurcharged") ELSE @]

\* The rename of line 97.
RenameFlooded(r) ==
    ("Node ID" :> r.node) @@ ("Max Rate (CFS)" :> r.MaxFloodingRate) @@
    ("Total Volume (10^6 gal)" :> r.TotalFloodVol)

\* The rename of line 104.
RenameSurcharged(r) ==
    ("Conduit ID" :> r.link) @@ ("Hours Surcharged" :> r.HoursSurcharged) @@
    ("Hours Above Normal" :> r.HoursAboveFullNormal)

\* pd.DataFrame(rows): the frame is its rows.
DataFrame(rows) == [rows |-> rows]

\* Lines 92-95 and 97: None unless a row was extracted.
TopFloodedDf(sorted) ==
    IF Len(sorted) > 0
    THEN DataFrame([i \in 1..Len(Take(sorted, TopN)) |-> RenameFlooded(sorted[i])])
    ELSE None

\* Lines 99-104.
TopSurchargedDf(sorted) ==
    IF Len(sorted) > 0
    THEN DataFrame([i \in 1..Len(Take(sorted, TopN)) |-> RenameSurcharged(sorted[i])])
    ELSE None

\* The dictionary of lines 106-114, from the locals after the sorts.
SuccessResult(l) ==
    [status |-> "success",
     continuity_error_runoff_percent |-> l.continuity_error_runoff,
     continuity_error_routing_percent |-> l.continuity_error_routing,
     top_flooded_nodes |-> TopFloodedDf(l.flooded_nodes),
     top_surcharged_conduits |-> TopSurchargedDf(l.surcharged_links),
     raw_flooded_list |-> Take(l.flooded_nodes, TopN),
     raw_surcharged_list |-> Take(l.surcharged_links, TopN)]

\* The dictionary of line 117; message: the exception that was caught.
ErrorResult(exception) == [status |-> "error", message |-> exception]

\* The dictionary of line 16: it has no "status" key.
NotFoundResult == [error |-> "Report file not found"]

\* A file opened without the with statement: nothing closes it.
WithExitLeak(h) == h

\* The with statement of line 33 closes the file however the block is left.
WithExit(h) == "closed"

-----------------------------------------------------------------------------
(* The calls *)

\* Locals kept in one module-level frame that every call uses.
SharedLocals(c) == loc[1]

\* The frame of call c: lines 18-26 create the locals anew in every call.
Locals(c) == loc[c]

\* Line 15 finds no file and line 16 returns.
NotFound(c) ==
    /\ pc[c] = "start"
    /\ ~on_disk[c]
    /\ pc' = [pc EXCEPT ![c] = "returned"]
    /\ result' = [result EXCEPT ![c] = NotFoundResult]
    /\ UNCHANGED <<on_disk, file, handle, pos, loc>>
    /\ UNCHANGED outer

\* Lines 18-33: the locals are set and the file is opened.
Open(c) ==
    /\ pc[c] = "start"
    /\ on_disk[c]
    /\ pc' = [pc EXCEPT ![c] = "reading"]
    /\ loc' = [loc EXCEPT ![c] = InitialLocals]
    /\ handle' = [handle EXCEPT ![c] = "open"]
    /\ UNCHANGED <<on_disk, file, pos, result>>
    /\ UNCHANGED outer

\* open() of line 33 raises (the path is a directory, or may not be read):
\* line 116 catches it.
OpenFails(c) ==
    /\ pc[c] = "start"
    /\ on_disk[c]
    /\ pc' = [pc EXCEPT ![c] = "returned"]
    /\ loc' = [loc EXCEPT ![c] = InitialLocals]
    /\ result' = [result EXCEPT ![c] = ErrorResult("OSError")]
    /\ UNCHANGED <<on_disk, file, handle, pos>>
    /\ UNCHANGED outer

\* One iteration of the for loop of line 34 on the next line of the file.
\* A ValueError leaves the with block and is caught at line 116.
ProcessLine(c) ==
    /\ pc[c] = "reading"
    /\ pos[c] < Len(file[c])
    /\ LET line == file[c][pos[c] + 1] IN
       /\ pos' = [pos EXCEPT ![c] = @ + 1]
       /\ IF ContinuityRaises(line)
          THEN /\ pc' = [pc EXCEPT ![c] = "returned"]
               /\ handle' = [handle EXCEPT ![c] = WithExit(@)]
               /\ result' = [result EXCEPT ![c] = ErrorResult("ValueError")]
               /\ UNCHANGED loc
          ELSE /\ loc' = [loc EXCEPT ![c] = StepLine(Locals(c), line)]
               /\ UNCHANGED <<pc, handle, result>>
    /\ UNCHANGED <<on_disk, file>>
    /\ UNCHANGED outer

\* A read error that ends the pass early and returns what was gathered.
ReadErrorPartial(c) ==
    /\ pc[c] = "reading"
    /\ pc' = [pc EXCEPT ![c] = "returned"]
    /\ handle' = [handle EXCEPT ![c] = WithExit(@)]
    /\ result' = [result EXCEPT ![c] = SuccessResult(SortLists(loc[c]))]
    /\ UNCHANGED <<on_disk, file, pos, loc>>
    /\ UNCHANGED outer

\* Reading the next line raises (an I/O error of the source): the with block
\* is left and line 116 catches the exception.
ReadError(c) ==
    /\ pc[c] = "reading"
    /\ pc' = [pc EXCEPT ![c] = "returned"]
    /\ handle' = [handle EXCEPT ![c] = WithExit(@)]
    /\ result' = [result EXCEPT ![c] = ErrorResult("OSError")]
    /\ UNCHANGED <<on_disk, file, pos, loc>>
    /\ UNCHANGED outer

\* Finish that drops the rows of a table still open at the end of the input.
FinishDropsOpenTable(c) ==
    /\ pc[c] = "reading"
    /\ pos[c] = Len(file[c])
    /\ pc' = [pc EXCEPT ![c] = "returned"]
    /\ handle' = [handle EXCEPT ![c] = WithExit(@)]
    /\ LET l == [loc[c] EXCEPT
                    !.flooded_nodes =
                        IF loc[c].in_flooding_table THEN <<>> ELSE @,
                    !.surcharged_links =
                        IF loc[c].in_surcharge_table THEN <<>> ELSE @]
       IN  /\ loc' = [loc EXCEPT ![c] = SortLists(l)]
           /\ result' = [result EXCEPT ![c] = SuccessResult(SortLists(l))]
    /\ UNCHANGED <<on_disk, file, pos>>
    /\ UNCHANGED outer

\* The file is exhausted: the with block ends, lines 91-114 sort, cut and
\* return.
Finish(c) ==
    /\ pc[c] = "reading"
    /\ pos[c] = Len(file[c])
    /\ pc' = [pc EXCEPT ![c] = "returned"]
    /\ handle' = [handle EXCEPT ![c] = WithExit(@)]
    /\ loc' = [loc EXCEPT ![c] = SortLists(Locals(c))]
    /\ result' = [result EXCEPT ![c] = SuccessResult(SortLists(Locals(c)))]
    /\ UNCHANGED <<on_disk, file, pos>>
    /\ UNCHANGED outer

Next ==
    \E c \in Calls :
        \/ NotFound(c)
        \/ Open(c)
        \/ OpenFails(c)
        \/ ProcessLine(c)
        \/ ReadError(c)
        \/ Finish(c)

-----------------------------------------------------------------------------
(* The tool analyze_swmm_report, src/agent_workflow.py lines 18-65 *)

\* d.get(key)
Get(d, key) == IF key \in DOMAIN d THEN d[key] ELSE None

\* result_dict.get("status"), as the caller reads it.
Status(r) == IF "status" \in DOMAIN r THEN r.status ELSE "absent"

\* A call of the tool that has not been made.  msg: the message whose
\* handling makes the call.
IdleTool == [pc |-> "idle", out |-> None, msg |-> 0]

\* The string of line 26.
PathError == [kind |-> "error", text |-> "does not exist on disk"]

\* The string of line 31.
ParseFailure(result_dict) ==
    [kind |-> "error", text |-> "Failed to parse model",
     message |-> Get(result_dict, "message")]

\* Lines 49-54 and 57-62: the rows of the list, or the line that says none
\* was found.
ListLines(result_dict, key) ==
    IF key \in DOMAIN result_dict /\ Len(result_dict[key]) > 0
    THEN [found |-> TRUE, rows |-> result_dict[key]]
    ELSE [found |-> FALSE, rows |-> <<>>]

\* The summary of lines 45-65.
Summary(result_dict) ==
    [kind |-> "summary",
     runoff |-> Get(result_dict, "continuity_error_runoff_percent"),
     routing |-> Get(result_dict, "continuity_error_routing_percent"),
     flooded |-> ListLines(result_dict, "raw_flooded_list"),
     surcharged |-> ListLines(result_dict, "raw_surcharged_list")]

\* The session before any frame is stored: get returns None.
NoFrames == [latest_flooded_df |-> None, latest_surcharged_df |-> None]

\* Lines 41-42.
StoreFrames(result_dict) ==
    [latest_flooded_df |-> Get(result_dict, "top_flooded_nodes"),
     latest_surcharged_df |-> Get(result_dict, "top_surcharged_conduits")]

\* The action node invokes the tool, one call at a time; lines 24-28: the
\* path does not exist and line 26 returns, or parse_swmm_results is called.
ToolCheck(c) ==
    /\ graph.node = "action"
    /\ tool[c].pc = "idle"
    /\ \A d \in Calls : tool[d].pc \in {"idle", "done"}
    /\ \A d \in Calls : d < c => tool[d].pc # "idle"
    /\ IF ~on_disk[c]
       THEN /\ tool' = [tool EXCEPT ![c] =
                           [pc |-> "returned", out |-> PathError, msg |-> chat.n]]
            /\ UNCHANGED pc
       ELSE /\ tool' = [tool EXCEPT ![c] =
                           [pc |-> "parsing", out |-> None, msg |-> chat.n]]
            /\ pc' = [pc EXCEPT ![c] = "start"]
    /\ UNCHANGED <<on_disk, file, handle, pos, loc, result>>
    /\ UNCHANGED <<session, graph, chat>>

\* The file is removed after the test of line 25 and before the parser's
\* own test (src/swmm_tools.py line 15).
Vanish(c) ==
    /\ tool[c].pc = "parsing"
    /\ pc[c] = "start"
    /\ on_disk[c]
    /\ on_disk' = [on_disk EXCEPT ![c] = FALSE]
    /\ UNCHANGED <<file, pc, handle, pos, loc, result>>
    /\ UNCHANGED outer

\* Lines 30-65, once parse_swmm_results has returned.
ToolReturn(c) ==
    /\ tool[c].pc = "parsing"
    /\ pc[c] = "returned"
    /\ IF Status(result[c]) = "error"
       THEN /\ tool' = [tool EXCEPT ![c].pc = "returned",
                                    ![c].out = ParseFailure(result[c])]
            /\ UNCHANGED session
       ELSE /\ tool' = [tool EXCEPT ![c].pc = "returned",
                                    ![c].out = Summary(result[c])]
            /\ session' = StoreFrames(result[c])
    /\ UNCHANGED <<on_disk, file, pc, handle, pos, loc, result>>
    /\ UNCHANGED <<graph, chat>>

-----------------------------------------------------------------------------
(* The agent graph, src/agent_workflow.py lines 75-130 *)

\* should_continue that never routes to the tools.
should_continue_never(tool_calls) == "end"

\* Lines 75-81, of the tool calls of the last message.
should_continue(tool_calls) == IF tool_calls THEN "continue" ELSE "end"

\* The conditional edges of lines 119-126.
AfterAgent(route) == IF route = "continue" THEN "action" ELSE "END"

\* No run of the graph is under way.
NoRun == [node |-> "none", tool_calls |-> FALSE]

\* The agent node (lines 99-108): the model answers, with tool calls or
\* without, and the conditional edge is taken.  The model asks for a tool
\* only while a call of the tool is left.
AgentStep ==
    \E tool_calls \in BOOLEAN :
        /\ graph.node = "agent"
        /\ tool_calls => \E c \in Calls : tool[c].pc = "idle"
        /\ graph' = [node |-> AfterAgent(should_continue(tool_calls)),
                     tool_calls |-> tool_calls]
        /\ UNCHANGED <<on_disk, file, pc, handle, pos, loc, result>>
        /\ UNCHANGED <<tool, session, chat>>

\* model.invoke of line 107 raises: the run of the graph raises.
AgentRaises ==
    /\ graph.node = "agent"
    /\ graph' = [node |-> "raised", tool_calls |-> FALSE]
    /\ UNCHANGED <<on_disk, file, pc, handle, pos, loc, result>>
    /\ UNCHANGED <<tool, session, chat>>

\* The tool has returned: its message is the last one, and the edge of
\* line 127 leads back to the agent.
ActionDone(c) ==
    /\ graph.node = "action"
    /\ tool[c].pc = "returned"
    /\ tool' = [tool EXCEPT ![c].pc = "done"]
    /\ graph' = [node |-> "agent", tool_calls |-> FALSE]
    /\ UNCHANGED <<on_disk, file, pc, handle, pos, loc, result>>
    /\ UNCHANGED <<session, chat>>

-----------------------------------------------------------------------------
(* The chat handler on_message, src/app.py lines 36-193 *)

MaxMessages == 2

\* No frame is rendered in the reply.
NoReply == [flooded |-> None, surcharged |-> None]

\* Before the first message.
ChatIdle == [pc |-> "idle", n |-> 0, rendered |-> NoReply]

\* Lines 138 and 156: the frame is rendered if it is not None and not empty.
Shown(df) == IF df # None /\ Len(df.rows) > 0 THEN df ELSE None

\* Lines 37-87: a message arrives and the graph is run from its entry, the
\* edge of src/agent_workflow.py line 118.
OnMessage ==
    /\ chat.pc = "idle"
    /\ chat.n < MaxMessages
    /\ chat' = [pc |-> "running", n |-> chat.n + 1, rendered |-> NoReply]
    /\ graph' = [node |-> "agent", tool_calls |-> FALSE]
    /\ UNCHANGED <<on_disk, file, pc, handle, pos, loc, result>>
    /\ UNCHANGED <<tool, session>>

\* Lines 120-123: the run of the graph raised; the error is sent and the
\* handler returns.
GraphRaised ==
    /\ chat.pc = "running"
    /\ graph.node = "raised"
    /\ chat' = [chat EXCEPT !.pc = "idle"]
    /\ graph' = NoRun
    /\ UNCHANGED <<on_disk, file, pc, handle, pos, loc, result>>
    /\ UNCHANGED <<tool, session>>

\* Lines 125-164: the run of the graph ended; the frames of the session are
\* rendered, then cleared.
RenderAndClear ==
    /\ chat.pc = "running"
    /\ graph.node = "END"
    /\ chat' = [chat EXCEPT
                   !.pc = "idle",
                   !.rendered = [flooded |-> Shown(session.latest_flooded_df),
                                 surcharged |-> Shown(session.latest_surcharged_df)]]
    /\ session' = NoFrames
    /\ graph' = NoRun
    /\ UNCHANGED <<on_disk, file, pc, handle, pos, loc, result>>
    /\ UNCHANGED tool

\* The handler, the graph it runs, the tool the graph calls and the parser
\* the tool calls.
NextApp ==
    \/ OnMessage
    \/ AgentStep
    \/ AgentRaises
    \/ GraphRaised
    \/ RenderAndClear
    \/ \E c \in Calls :
          \/ ToolCheck(c)
          \/ Vanish(c)
          \/ ToolReturn(c)
          \/ ActionDone(c)
          \/ NotFound(c)
          \/ Open(c)
          \/ OpenFails(c)
          \/ ProcessLine(c)
          \/ ReadError(c)
          \/ Finish(c)

-----------------------------------------------------------------------------
(* The reports *)

BlankLine == <<>>

ContRunoffLine == <<"Continuity", "Error", "(%)", ".....", "-0.029">>

ContRoutingLine == <<"Continuity", "Error", "(%)", ".....", "0.441">>

ContBadLine == <<"Continuity", "Error", "(%)", ".....", "n/a">>

FloodingMarkerLine == <<"Node", "Flooding", "Summary">>

SurchargeMarkerLine == <<"Conduit", "Surcharge", "Summary">>

HeaderLine == <<"Node", "Flooded", "CFS", "days", "hr:min", "10^6", "gal", "Feet">>

DashLine == <<"--------------------">>

RowJ12 == <<"J12", "5.00", "12.5", "0", "0", "0.250">>

RowJ44 == <<"J44", "3.20", "18.25", "0", "0", "0.800">>

\* Ties with RowJ12 on both sort keys.
RowJ13 == <<"J13", "5.00", "12.5", "0", "0", "0.25">>

RowNaN == <<"J99", "1.00", "2.5", "0", "0", "nan">>

ShortRow == <<"J12", "5.00">>

BadRow == <<"J7", "1.00", "abc", "n/a", "0", "0.800">>

\* A surcharge marker on a line that also has the fields of a flooding row.
SurchargeMarkerRow ==
    <<"C1", "1.00", "2.5", "0", "0", "0.800", "Conduit", "Surcharge", "Summary">>

\* A flooding marker on a line that also has the fields of a surcharge row.
FloodingMarkerRow ==
    <<"J5", "1.00", "2.5", "0", "0", "0.800", "Node", "Flooding", "Summary">>

\* The sequences of at most n lines drawn from the set lines.
FilesOver(lines, n) == UNION {[1..k -> lines] : k \in 0..n}

\* The reports a call may be given: a missing path, or a file among files.
Reports(files) ==
    {[exists |-> TRUE, lines |-> f] : f \in files} \cup
    {[exists |-> FALSE, lines |-> <<>>]}

Idle == [exists |-> FALSE, lines |-> <<>>]

\* The state before the calls of started begin, call c given report r[c]:
\* no tool call made, no frame in the session, no message handled.
Begin(r, started) ==
    /\ on_disk = [c \in Calls |-> r[c].exists]
    /\ file = [c \in Calls |-> r[c].lines]
    /\ pc = [c \in Calls |-> IF c \in started THEN "start" ELSE "off"]
    /\ handle = [c \in Calls |-> "unopened"]
    /\ pos = [c \in Calls |-> 0]
    /\ loc = [c \in Calls |-> InitialLocals]
    /\ result = [c \in Calls |-> None]
    /\ tool = [c \in Calls |-> IdleTool]
    /\ session = NoFrames
    /\ graph = NoRun
    /\ chat = ChatIdle

MaxLines == 4

GeneralLines ==
    {BlankLine, ContRunoffLine, ContRoutingLine, ContBadLine,
     FloodingMarkerLine, SurchargeMarkerLine, RowJ12, RowJ44, DashLine}

\* One call on any report of at most MaxLines lines.
Init ==
    \E r \in Reports(FilesOver(GeneralLines, MaxLines)) :
        Begin(<<r, Idle>>, {1})

Spec == Init /\ [][Next]_vars

MaxTableLines == 4

\* Header, separator, too few tokens, a field that is no number.
TableJunk == {HeaderLine, DashLine, ShortRow, BadRow}

DataRows == {RowJ12, RowJ44}

TableLines == TableJunk \cup DataRows

\* A report that is one table: its start marker, then header, separator,
\* short and malformed rows among data rows.
TableFiles ==
    {<<m>> \o body : m \in {FloodingMarkerLine, SurchargeMarkerLine},
                     body \in FilesOver(TableLines, MaxTableLines)}

\* One call on a report that is one table.
InitTable == \E r \in Reports(TableFiles) : Begin(<<r, Idle>>, {1})

SpecTable == InitTable /\ [][Next]_vars

MaxRankRows == 7

RankRows == {RowJ12, RowJ13, RowJ44, RowNaN}

\* A report that is a flooding table of data rows only.
RankFiles ==
    {<<FloodingMarkerLine>> \o body : body \in FilesOver(RankRows, MaxRankRows)}

\* One call on a flooding table of at most MaxRankRows rows.
InitRank == \E r \in Reports(RankFiles) : Begin(<<r, Idle>>, {1})

SpecRank == InitRank /\ [][Next]_vars

MaxConcLines == 2

ConcLines == {ContRunoffLine, FloodingMarkerLine, RowJ12, RowJ44}

\* Two calls, each on its own report.
InitConc ==
    \E r1 \in Reports(FilesOver(ConcLines, MaxConcLines)),
       r2 \in Reports(FilesOver(ConcLines, MaxConcLines)) :
        Begin(<<r1, r2>>, {1, 2})

SpecConc == InitConc /\ [][Next]_vars

MaxMarkerLines == 4

MarkerLines ==
    {FloodingMarkerLine, SurchargeMarkerLine, FloodingMarkerRow,
     SurchargeMarkerRow, RowJ12, BlankLine}

\* One call on a report of markers, bare or with further tokens, and rows.
InitMarker ==
    \E r \in Reports(FilesOver(MarkerLines, MaxMarkerLines)) :
        Begin(<<r, Idle>>, {1})

SpecMarker == InitMarker /\ [][Next]_vars

MaxAppLines == 2

AppLines == {FloodingMarkerLine, RowJ12}

\* A chat in which the tool is called at most once per member of Calls, each
\* call on its own report; no call of the parser is made before the tool
\* makes it.
InitApp ==
    \E r1 \in Reports(FilesOver(AppLines, MaxAppLines)),
       r2 \in Reports(FilesOver(AppLines, MaxAppLines)) :
        Begin(<<r1, r2>>, {})

SpecApp == InitApp /\ [][NextApp]_vars

-----------------------------------------------------------------------------
(* What the claims speak of *)

IsSuccess(r) == Status(r) = "success"

\* A failure: the dictionary of line 16 or the one of line 117.
IsFailure(r) == "error" \in DOMAIN r \/ Status(r) = "error"

\* The keys that carry the continuity figures and the ranked lists.
PayloadKeys ==
    {"continuity_error_runoff_percent", "continuity_error_routing_percent",
     "top_flooded_nodes", "top_surcharged_conduits",
     "raw_flooded_list", "raw_surcharged_list"}

\* The lines the loop of call c has read that carry the continuity label.
ContinuityIdx(c) ==
    {i \in 1..pos[c] : Contains(file[c][i], ContinuityLabel)}

Min(S) == CHOOSE x \in S : \A y \in S : x <= y

\* The trailing token of line i of the file of call c.
Trailing(c, i) == file[c][i][Len(file[c][i])]

\* The locals after the first k lines of f, when none of them raises.
RECURSIVE LocalsAfter(_, _)
LocalsAfter(f, k) ==
    IF k = 0 THEN InitialLocals ELSE StepLine(LocalsAfter(f, k - 1), f[k])

\* The result of a complete pass over f.
RunResult(f) == SuccessResult(SortLists(LocalsAfter(f, Len(f))))

\* No row of s has a larger key than a row before it.
Descending(s, key) ==
    \A i, j \in 1..Len(s) : i < j => ~FloatLT(s[i][key], s[j][key])

\* How often r occurs in s.
Count(s, r) == Cardinality({i \in 1..Len(s) : s[i] = r})

\* out is a ranking of the accepted rows acc: sorted, cut at TopN, and made
\* of accepted rows only.
Ranked(out, acc, key) ==
    /\ Descending(out, key)
    /\ Len(out) = IF Len(acc) < TopN THEN Len(acc) ELSE TopN
    /\ \A i \in 1..Len(out) : Count(out, out[i]) <= Count(acc, out[i])

\* Among the rows of one key, out holds the earliest accepted ones, in the
\* order in which they were accepted.
Stable(out, acc, key) ==
    \A i \in 1..Len(out) :
        LET SameKey(r) == FloatEQ(r[key], out[i][key])
            kept == SelectSeq(out, SameKey)
        IN  kept = Take(SelectSeq(acc, SameKey), Len(kept))

\* The report of call c is one table of TableLines.
IsTableFile(f) ==
    /\ Len(f) >= 1
    /\ f[1] \in {FloodingMarkerLine, SurchargeMarkerLine}
    /\ \A i \in 2..Len(f) : f[i] \in TableLines

IsDataRow(line) == line \in DataRows

\* The data rows among the table lines call c has read.
DataRowsRead(c) == SelectSeq(SubSeq(file[c], 2, pos[c]), IsDataRow)

\* The outcomes of call c when it runs alone.
AloneOutcomes(c) ==
    IF ~on_disk[c] THEN {NotFoundResult}
    ELSE {ErrorResult("OSError")} \cup
         (IF \E i \in 1..Len(file[c]) : ContinuityRaises(file[c][i])
          THEN {ErrorResult("ValueError")}
          ELSE {RunResult(file[c])})

-----------------------------------------------------------------------------
(* C1: for every sequence of lines and in every table state, the runoff     *)
(* figure is the trailing value of the first line read that contains        *)
(* "Continuity Error (%)", the routing figure is the trailing value of the  *)
(* second such line, and no later line changes either: in every state each  *)
(* figure is None until its line has been read and that line's value from   *)
(* then on.                                                                 *)
C1_ContinuityFigures ==
    \A c \in Calls :
        LET idx == ContinuityIdx(c)
            first == Min(idx)
            rest == idx \ {first}
            second == Min(rest)
            l == loc[c]
        IN  /\ idx = {} =>
                /\ l.continuity_error_runoff = None
                /\ l.continuity_error_routing = None
            /\ idx # {} /\ CanFloat(Trailing(c, first)) =>
                /\ l.continuity_error_runoff = Float(Trailing(c, first))
                /\ rest = {} => l.continuity_error_routing = None
                /\ rest # {} /\ CanFloat(Trailing(c, second)) =>
                       l.continuity_error_routing = Float(Trailing(c, second))
            /\ IsSuccess(result[c]) =>
                /\ result[c].continuity_error_runoff_percent
                       = l.continuity_error_runoff
                /\ result[c].continuity_error_routing_percent
                       = l.continuity_error_routing

\* A pass that returned its result after reading the flooding marker and
\* three continuity lines, the third with another value than the second.
C1_Witness ==
    \E c \in Calls :
        /\ IsSuccess(result[c])
        /\ loc[c].in_flooding_table
        /\ Cardinality(ContinuityIdx(c)) >= 3
        /\ LET third == Min((ContinuityIdx(c) \ {Min(ContinuityIdx(c))})
                              \ {Min(ContinuityIdx(c) \ {Min(ContinuityIdx(c))})})
           IN  Float(Trailing(c, third)) # result[c].continuity_error_routing_percent

(* C2: a line containing "Continuity Error (%)" whose trailing token is not *)
(* numeric is skipped: the call that read such a line still returns a       *)
(* success result and no error outcome.                                     *)
C2_BadContinuityLineSkipped ==
    \A c \in Calls :
        /\ pc[c] = "returned"
        /\ \E i \in 1..pos[c] : ContinuityRaises(file[c][i])
        => IsSuccess(result[c])

(* C3: the outcome is a success or a failure and never a mix: a call whose  *)
(* path does not exist, or whose pass was cut short by a failure, returns a *)
(* failure, and a failure carries no continuity figure and no ranked list;  *)
(* a success is returned only after the whole file was read.                *)
C3_SuccessOrFailure ==
    \A c \in Calls :
        pc[c] = "returned" =>
            /\ IsSuccess(result[c]) # IsFailure(result[c])
            /\ ~on_disk[c] => IsFailure(result[c])
            /\ pos[c] < Len(file[c]) => IsFailure(result[c])
            /\ IsSuccess(result[c]) => PayloadKeys \subseteq DOMAIN result[c]
            /\ IsFailure(result[c]) => PayloadKeys \cap DOMAIN result[c] = {}

\* A read failure after a figure and a row were gathered.
C3_Witness ==
    \E c \in Calls :
        /\ pc[c] = "returned"
        /\ result[c] = ErrorResult("OSError")
        /\ loc[c].continuity_error_runoff # None
        /\ Len(loc[c].flooded_nodes) > 0
        /\ pos[c] < Len(file[c])

(* C6: when no row was accepted for a table, the success result's          *)
(* top_flooded_nodes (top_surcharged_conduits) is an empty ordered sequence *)
(* and not a null value.                                                    *)
C6_EmptyListsNotNull ==
    \A c \in Calls :
        IsSuccess(result[c]) =>
            /\ Len(loc[c].flooded_nodes) = 0 =>
                   result[c].top_flooded_nodes = DataFrame(<<>>)
            /\ Len(loc[c].surcharged_links) = 0 =>
                   result[c].top_surcharged_conduits = DataFrame(<<>>)

(* C9: the file handle is closed on every exit path: no call that has       *)
(* returned, with a result or after a failure in the middle of the stream,  *)
(* leaves its handle open.                                                  *)
C9_HandleClosed ==
    \A c \in Calls :
        pc[c] = "returned" => handle[c] # "open"

\* A call that failed in the middle of the stream and closed its handle.
C9_Witness ==
    \E c \in Calls :
        /\ pc[c] = "returned"
        /\ IsFailure(result[c])
        /\ 0 < pos[c] /\ pos[c] < Len(file[c])
        /\ handle[c] = "closed"

(* C4: each ranked list is sorted in descending order of its key, has      *)
(* length min(5, number of rows accepted for its table) and holds accepted  *)
(* rows only.                                                               *)
C4_RankedLists ==
    \A c \in Calls :
        IsSuccess(result[c]) =>
            LET acc == LocalsAfter(file[c], Len(file[c])) IN
            /\ Ranked(result[c].raw_flooded_list, acc.flooded_nodes,
                      "TotalFloodVol")
            /\ Ranked(result[c].raw_surcharged_list, acc.surcharged_links,
                      "HoursSurcharged")

(* C5: ranking is stable: of two accepted rows of one table with equal sort *)
(* key the one read earlier ranks earlier, and when the cut at 5 falls      *)
(* inside a group of tied rows the rows read earlier are the ones kept.     *)
C5_StableRanking ==
    \A c \in Calls :
        IsSuccess(result[c]) =>
            LET acc == LocalsAfter(file[c], Len(file[c])) IN
            /\ Stable(result[c].raw_flooded_list, acc.flooded_nodes,
                      "TotalFloodVol")
            /\ Stable(result[c].raw_surcharged_list, acc.surcharged_links,
                      "HoursSurcharged")

(* C7: inside a table, header rows, separator rows, rows with too few       *)
(* tokens and rows with a non-numeric field are rejected silently: however  *)
(* they are interleaved with data rows, the accumulated records are the     *)
(* data rows read, in input order, and no line makes the call fail.         *)
C7_JunkRowsSkipped ==
    \A c \in Calls :
        on_disk[c] /\ IsTableFile(file[c]) =>
            /\ pc[c] = "reading" /\ pos[c] >= 1 =>
                LET rows == DataRowsRead(c) IN
                IF file[c][1] = FloodingMarkerLine
                THEN /\ loc[c].flooded_nodes =
                            [i \in 1..Len(rows) |-> FloodRecord(rows[i])]
                     /\ loc[c].surcharged_links = <<>>
                ELSE /\ loc[c].surcharged_links =
                            [i \in 1..Len(rows) |-> SurchargeRecord(rows[i])]
                     /\ loc[c].flooded_nodes = <<>>
            /\ pc[c] = "returned" =>
                \/ result[c] = ErrorResult("OSError")
                \/ /\ IsSuccess(result[c])
                   /\ \A row \in DataRows :
                        Count(DataRowsRead(c), row) =
                            IF file[c][1] = FloodingMarkerLine
                            THEN Count(loc[c].flooded_nodes, FloodRecord(row))
                            ELSE Count(loc[c].surcharged_links,
                                       SurchargeRecord(row))

\* A table read to its end in which a separator and a malformed row stand
\* before and between two data rows.
C7_Witness ==
    \E c \in Calls :
        /\ IsSuccess(result[c])
        /\ IsTableFile(file[c])
        /\ \E i, j, k, m \in 2..Len(file[c]) :
              /\ i < j /\ j < k /\ k < m
              /\ file[c][i] \in {HeaderLine, DashLine}
              /\ file[c][j] \in DataRows
              /\ file[c][k] = BadRow
              /\ file[c][m] \in DataRows
        /\ Len(result[c].raw_flooded_list) = 2

(* C8: when the input ends inside a table the table is closed implicitly:   *)
(* the call returns a success, and its result is the one it returns when a  *)
(* blank line closes the table, so every row accepted before the end of the *)
(* input is ranked.                                                         *)
C8_ImplicitClose ==
    \A c \in Calls :
        /\ pc[c] = "returned"
        /\ loc[c].in_flooding_table \/ loc[c].in_surcharge_table
        => \/ result[c] \in {ErrorResult("OSError"), ErrorResult("ValueError")}
           \/ /\ IsSuccess(result[c])
              /\ result[c] = RunResult(Append(file[c], BlankLine))

\* The input ended inside the flooding table after two rows.
C8_Witness ==
    \E c \in Calls :
        /\ IsSuccess(result[c])
        /\ loc[c].in_flooding_table
        /\ Len(result[c].raw_flooded_list) = 2

(* C10: two calls running concurrently on their own inputs, their steps     *)
(* interleaved in any order, do not touch each other's state: while a call  *)
(* reads, its locals are those of a pass alone over the lines it has read,  *)
(* and what it returns is an outcome of the same call run alone.            *)
C10_CallsIndependent ==
    \A c \in Calls :
        /\ pc[c] = "reading" => loc[c] = LocalsAfter(file[c], pos[c])
        /\ pc[c] = "returned" => result[c] \in AloneOutcomes(c)

\* One call has returned its rows while the other, on another report, is in
\* the middle of its pass.
C10_Witness ==
    /\ pc[1] = "reading" /\ 0 < pos[1] /\ pos[1] < Len(file[1])
    /\ IsSuccess(result[2])
    /\ Len(result[2].raw_flooded_list) > 0
    /\ file[1] # file[2]
    /\ loc[1].in_flooding_table

C12_OneTableActive ==
    \A c \in Calls :
        ~(loc[c].in_flooding_table /\ loc[c].in_surcharge_table)

(* C13: while in a table, a blank line closes that table if and only if its *)
(* accumulator already holds a row; a blank line read while the accumulator *)
(* is empty leaves the flag set, so the rows that follow are still taken.   *)
(* The rule is the same for the flooding and the surcharge table, each with *)
(* its own accumulator; a blank line adds no row.                           *)
C13_BlankLineCloses ==
    [][\A c \in Calls :
         /\ pc[c] = "reading" /\ pos'[c] = pos[c] + 1
         /\ IsBlank(file[c][pos'[c]])
         => /\ loc[c].in_flooding_table =>
                  (~loc'[c].in_flooding_table
                      <=> Len(loc[c].flooded_nodes) > 0)
            /\ loc[c].in_surcharge_table =>
                  (~loc'[c].in_surcharge_table
                      <=> Len(loc[c].surcharged_links) > 0)
            /\ loc'[c].flooded_nodes = loc[c].flooded_nodes
            /\ loc'[c].surcharged_links = loc[c].surcharged_links]_vars

\* s is the beginning of t.
IsPrefix(s, t) == Len(s) <= Len(t) /\ SubSeq(t, 1, Len(s)) = s

IsMarkerLine(line) ==
    Contains(line, FloodingMarker) \/ Contains(line, SurchargeMarker)

(* C15: a table start marker line is never treated as data: in every state, *)
(* reading a line that contains "Node Flooding Summary" or "Conduit         *)
(* Surcharge Summary" adds no record to either accumulator, whatever other  *)
(* tokens the line carries.                                                 *)
C15_MarkerLineNoData ==
    [][\A c \in Calls :
         /\ pc[c] = "reading" /\ pos'[c] = pos[c] + 1
         /\ IsMarkerLine(file[c][pos'[c]])
         => /\ loc'[c].flooded_nodes = loc[c].flooded_nodes
            /\ loc'[c].surcharged_links = loc[c].surcharged_links]_vars

\* A table is open and every extractor the line is handed to rejects it.
Rejected(l, line) ==
    /\ l.in_flooding_table \/ l.in_surcharge_table
    /\ l.in_flooding_table =>
          ~(FloodRowMatches(line) /\ FloodRowParses(line))
    /\ l.in_surcharge_table =>
          ~(SurchargeRowMatches(line) /\ SurchargeRowParses(line))

(* C16: a line an extractor rejects has no effect on the table state: after *)
(* a line that is neither blank nor a marker and that the extractor of the  *)
(* open table rejects, both table flags and both accumulators are as they   *)
(* were before the line.                                                    *)
C16_RejectedLineNoEffect ==
    [][\A c \in Calls :
         /\ pc[c] = "reading" /\ pos'[c] = pos[c] + 1
         /\ ~IsBlank(file[c][pos'[c]])
         /\ ~IsMarkerLine(file[c][pos'[c]])
         /\ Rejected(loc[c], file[c][pos'[c]])
         => /\ loc'[c].in_flooding_table = loc[c].in_flooding_table
            /\ loc'[c].in_surcharge_table = loc[c].in_surcharge_table
            /\ loc'[c].flooded_nodes = loc[c].flooded_nodes
            /\ loc'[c].surcharged_links = loc[c].surcharged_links]_vars

\* A malformed or header line has just been read after a data row of the
\* flooding table: the table is still open and holds the row.
C16_Witness ==
    \E c \in Calls :
        /\ pc[c] = "reading" /\ pos[c] >= 3
        /\ file[c][pos[c]] \in TableJunk
        /\ file[c][pos[c] - 1] \in DataRows
        /\ loc[c].in_flooding_table
        /\ Len(loc[c].flooded_nodes) >= 1

(* C17: each line is handled by at most one extractor: whatever the lines,  *)
(* no single line is appended both to the flooded-node accumulator and to   *)
(* the surcharged-link accumulator.                                         *)
C17_OneExtractorPerLine ==
    [][\A c \in Calls :
         pc[c] = "reading" /\ pos'[c] = pos[c] + 1 =>
            ~ /\ Len(loc'[c].flooded_nodes) > Len(loc[c].flooded_nodes)
              /\ Len(loc'[c].surcharged_links) > Len(loc[c].surcharged_links)]_vars

(* C18: the tool never presents a failed parse as an analysis: whenever     *)
(* parse_swmm_results has returned a failure, the one of the missing file   *)
(* (also when the file disappears between the tool's test and the parser's) *)
(* or the one of a read error, the tool returns a failure message and not   *)
(* a summary; and when the tool's own test finds no file it returns the     *)
(* failure message of that test.                                            *)
C18_FailureNotAnalysis ==
    \A c \in Calls :
        tool[c].pc \in {"returned", "done"} =>
            /\ IsFailure(result[c]) => tool[c].out.kind = "error"
            /\ result[c] = None => tool[c].out = PathError

(* C19: the two frames of the session are cleared at the end of every       *)
(* handling of a message, on every exit path, the one where the run of the  *)
(* graph raises after the tool has stored them included; hence a frame      *)
(* rendered in a reply was produced by a parse made while handling that     *)
(* very message.                                                            *)
C19_FramesCleared ==
    /\ chat.pc = "idle" => session = NoFrames
    /\ chat.rendered.flooded # None =>
          \E c \in Calls :
              /\ tool[c].msg = chat.n
              /\ IsSuccess(result[c])
              /\ result[c].top_flooded_nodes = chat.rendered.flooded
    /\ chat.rendered.surcharged # None =>
          \E c \in Calls :
              /\ tool[c].msg = chat.n
              /\ IsSuccess(result[c])
              /\ result[c].top_surcharged_conduits = chat.rendered.surcharged

(* C20: the run of the graph starts at the agent node; after an agent step  *)
(* it goes to the action node if and only if the last message carries tool *)
(* calls and otherwise ends; an action step is followed by an agent step.   *)
(* So the run ends only directly after an agent step whose message has no   *)
(* tool calls, never after an action step.                                  *)
C20_GraphRouting ==
    [][/\ graph.node = "none" /\ graph'.node # "none" =>
            graph'.node = "agent"
       /\ graph.node = "agent" /\ graph'.node \notin {"agent", "raised"} =>
            /\ graph'.node \in {"action", "END"}
            /\ graph'.node = "action" <=> graph'.tool_calls
       /\ graph.node = "action" /\ graph'.node # "action" =>
            graph'.node = "agent"
       /\ graph'.node = "END" /\ graph.node # "END" =>
            graph.node = "agent" /\ ~graph'.tool_calls]_vars

\* The run has ended after the agent called the tool, the tool returned and
\* the agent answered without tool calls.
C20_Witness ==
    /\ graph.node = "END"
    /\ ~graph.tool_calls
    /\ \E c \in Calls : tool[c].pc = "done" /\ tool[c].msg = chat.n

====
